---- MODULE Spec2Model ----
(***************************************************************************)
(* Variant-QC job graph of joint_calling/jobs/variant_qc.py and the final  *)
(* filter of scripts/final_filter.py.                                      *)
(*                                                                         *)
(* The graph builder (add_variant_qc_jobs, add_rf_eval_jobs,               *)
(* add_vqsr_eval_jobs) is a function of its arguments and of the artifact  *)
(* store; the batch runtime then runs the jobs of the graph.  Python None  *)
(* is the empty sequence, a value v is <<v>>.                              *)
(***************************************************************************)
EXTENDS Integers, Sequences, FiniteSets, TLC

(***************************************************************************)
(* Bounds                                                                  *)
(***************************************************************************)
\* at most this many jobs fail in one run
MaxFailures == 1
\* SpecBuild starts from stores with at most this many artifacts missing ...
MaxMissing == 2
\* ... or with at most this many artifacts present
MaxPresent == 1

(***************************************************************************)
(* Artifact paths (variant_qc.py:43-65, 107, 124, 154, 186, 205, 252-253,  *)
(* 308-309, 330, 374, 389-390)                                             *)
(***************************************************************************)
info_ht_path == "info.ht"
info_split_ht_path == "info-split.ht"
allele_data_ht_path == "allele-data.ht"
qc_ac_ht_path == "qc-ac.ht"
freq_ht_path == "frequencies.ht"
rf_annotations_ht_path == "rf-annotations.ht"
rf_result_ht_path == "rf-result.ht"
rf_score_bin_ht_path == "rf/rf-score-bin.ht"
rf_score_bin_agg_ht_path == "rf/rf-score-agg-bin.ht"
rf_final_filter_ht_path == "rf/final-filter.ht"
vqsred_vcf_path == "vqsr/output.vcf.gz"
vqsr_filters_split_ht_path == "vqsr/vqsr-filters-split.ht"
vqsr_score_bin_ht_path == "vqsr/vqsr-score-bin.ht"
vqsr_score_bin_agg_ht_path == "vqsr/vqsr-score-agg-bin.ht"
vqsr_final_filter_ht_path == "vqsr/final-filter.ht"
out_filtered_combined_mt_path == "out.mt"
export_ht_path == "export_vcf.ht"
export_vcf_header_txt == "export_vcf_header.txt"

\* fam_stats_ht_path is None without a pedigree file
fam_stats_ht_path(ped_file) == IF ped_file THEN <<"fam-stats.ht">> ELSE <<>>

\* list(map(str, range(1, 22 + 1))) + ['X', 'Y']
Chroms ==
    << "1", "2", "3", "4", "5", "6", "7", "8", "9", "10", "11", "12", "13",
       "14", "15", "16", "17", "18", "19", "20", "21", "22", "X", "Y" >>

ChromSet == {Chroms[i] : i \in DOMAIN Chroms}

\* the output VCF path patterns a run may be given: a pattern is the sequence
\* of its pieces, "{CHROM}" being the replacement field; the parameter is an
\* unchecked str, so a pattern without the field is accepted as well
VcfPatterns == { <<"out.chr", "{CHROM}", ".vcf.bgz">>, <<"out.vcf.bgz">> }

HasChromField(ptrn) == \E i \in DOMAIN ptrn : ptrn[i] = "{CHROM}"

\* ptrn.format(CHROM=chrom): every replacement field becomes chrom, the
\* other text is copied
RECURSIVE format(_, _)
format(ptrn, chrom) ==
    IF ptrn = <<>> THEN ""
    ELSE (IF Head(ptrn) = "{CHROM}" THEN chrom ELSE Head(ptrn))
             \o format(Tail(ptrn), chrom)

\* out_filtered_vcf_ptrn_path.format(CHROM=chrom)
Format == [ptrn \in VcfPatterns |->
             [chrom \in ChromSet |-> format(ptrn, chrom)]]

vcf_path(ptrn, chrom) == Format[ptrn][chrom]

VcfPaths == {vcf_path(p, c) : p \in VcfPatterns, c \in ChromSet}

CoreArtifacts ==
    { info_ht_path, info_split_ht_path, allele_data_ht_path, qc_ac_ht_path,
      "fam-stats.ht", freq_ht_path, rf_annotations_ht_path, rf_result_ht_path,
      rf_score_bin_ht_path, rf_score_bin_agg_ht_path, rf_final_filter_ht_path,
      vqsred_vcf_path, vqsr_filters_split_ht_path, vqsr_score_bin_ht_path,
      vqsr_score_bin_agg_ht_path, vqsr_final_filter_ht_path,
      out_filtered_combined_mt_path, export_ht_path, export_vcf_header_txt }

Artifacts == CoreArtifacts \cup VcfPaths

(***************************************************************************)
(* Artifact existence oracle (joint_calling/utils.py)                      *)
(***************************************************************************)
file_exists(path, st) == path \in st

\* can_reuse of a list of paths; a single path p is the list <<p>>
can_reuse(fpaths, overwrite, st) ==
    IF overwrite THEN FALSE
    ELSE \A i \in DOMAIN fpaths : file_exists(fpaths[i], st)

(***************************************************************************)
(* Jobs of the graph                                                       *)
(***************************************************************************)
ExportJobName == [chrom \in ChromSet |-> "export_chr" \o chrom]

ExportJob(chrom) == ExportJobName[chrom]

ExportJobs == {ExportJob(c) : c \in ChromSet}

CommonJobs == {"info_job", "var_qc_anno_job", "freq_job", "rf_anno_job",
               "final_mt_j", "final_ht_j"} \cup ExportJobs

RfJobs == {"rf_job", "rf_eval_job", "rf_final_filter_job"}

VqsrJobs == {"vqsr_vcf_job", "load_vqsr_job", "vqsr_eval_job",
             "vqsr_final_filter_job"}

Stages == CommonJobs \cup RfJobs \cup VqsrJobs

\* the caller's depends_on list, taken as one upstream job
Jobs == Stages \cup {"depends_on"}

\* run-level parameters of add_variant_qc_jobs that shape the graph, with any
\* of the patterns
PatternConfigs ==
    [ run_rf : BOOLEAN, overwrite : BOOLEAN, ped_file : BOOLEAN,
      depends_on : BOOLEAN, out_filtered_vcf_ptrn_path : VcfPatterns ]

\* the same with a pattern that has the {CHROM} field, as the parameter is
\* documented
Configs ==
    {c \in PatternConfigs : HasChromField(c.out_filtered_vcf_ptrn_path)}

ChromOfJob == [j \in ExportJobs |-> CHOOSE c \in ChromSet : ExportJob(c) = j]

ChromOf(j) == ChromOfJob[j]

(***************************************************************************)
(* Reuse decisions, one per job, as the code tests them                    *)
(***************************************************************************)
\* variant_qc.py:66-68
InfoReused(c, st) ==
    ~ \E fp \in {info_ht_path, info_split_ht_path} :
          ~ can_reuse(<<fp>>, c.overwrite, st)

\* variant_qc.py:82-86
AnnoPaths(c) ==
    <<allele_data_ht_path, qc_ac_ht_path>> \o fam_stats_ht_path(c.ped_file)

AnnoReused(c, st) ==
    ~ \E i \in DOMAIN AnnoPaths(c) :
          ~ can_reuse(<<AnnoPaths(c)[i]>>, c.overwrite, st)

\* the frequencies job with the test of the file turned round
FreqReusedInverted(c, st) == ~ (c.overwrite \/ file_exists(freq_ht_path, st))

\* variant_qc.py:108
FreqReused(c, st) == ~ (c.overwrite \/ ~ file_exists(freq_ht_path, st))

\* variant_qc.py:125
RfAnnoReused(c, st) ==
    ~ (c.overwrite \/ ~ file_exists(rf_annotations_ht_path, st))

\* variant_qc.py:156
RfReused(c, st) == ~ (c.overwrite \/ ~ file_exists(rf_result_ht_path, st))

\* variant_qc.py:310
RfEvalReused(c, st) ==
    ~ (c.overwrite \/ ~ file_exists(rf_score_bin_ht_path, st))

\* variant_qc.py:331
RfFinalFilterReused(c, st) ==
    ~ (c.overwrite \/ ~ file_exists(rf_final_filter_ht_path, st))

\* variant_qc.py:187
VqsrVcfReused(c, st) == ~ (c.overwrite \/ ~ file_exists(vqsred_vcf_path, st))

\* load_vqsr reused on the existence of the recalibrated VCF
LoadVqsrReusedOnVcf(c, st) ==
    ~ (c.overwrite \/ ~ file_exists(vqsred_vcf_path, st))

\* variant_qc.py:375
LoadVqsrReused(c, st) ==
    ~ (c.overwrite \/ ~ file_exists(vqsr_filters_split_ht_path, st))

\* variant_qc.py:391-395
VqsrEvalReused(c, st) ==
    ~ (c.overwrite \/ ~ file_exists(vqsr_score_bin_ht_path, st)
                   \/ ~ file_exists(vqsr_score_bin_agg_ht_path, st))

\* variant_qc.py:420
VqsrFinalFilterReused(c, st) ==
    ~ (~ file_exists(vqsr_final_filter_ht_path, st))

\* variant_qc.py:235
FinalMtReused(c, st) ==
    ~ (~ can_reuse(<<out_filtered_combined_mt_path>>, c.overwrite, st))

\* export_prepare reused on its table alone, the header file not looked at
FinalHtReusedTableOnly(c, st) ==
    ~ (~ can_reuse(<<export_ht_path>>, c.overwrite, st))

\* variant_qc.py:254
FinalHtReused(c, st) ==
    ~ (~ can_reuse(<<export_ht_path, export_vcf_header_txt>>, c.overwrite, st))

\* variant_qc.py:270-271
ExportReused(chrom, c, st) ==
    ~ (~ can_reuse(<<vcf_path(c.out_filtered_vcf_ptrn_path, chrom)>>,
                   c.overwrite, st))

\* the recalibration branch built whatever run_rf is
BranchJobsBoth(c) == IF c.run_rf THEN RfJobs \cup VqsrJobs ELSE VqsrJobs

\* the jobs add_variant_qc_jobs creates: the common ones and one branch
BranchJobs(c) == IF c.run_rf THEN RfJobs ELSE VqsrJobs

GraphJobs(c) == CommonJobs \cup BranchJobs(c)

Reused(j, c, st) ==
    CASE j = "info_job" -> InfoReused(c, st)
      [] j = "var_qc_anno_job" -> AnnoReused(c, st)
      [] j = "freq_job" -> FreqReused(c, st)
      [] j = "rf_anno_job" -> RfAnnoReused(c, st)
      [] j = "rf_job" -> RfReused(c, st)
      [] j = "rf_eval_job" -> RfEvalReused(c, st)
      [] j = "rf_final_filter_job" -> RfFinalFilterReused(c, st)
      [] j = "vqsr_vcf_job" -> VqsrVcfReused(c, st)
      [] j = "load_vqsr_job" -> LoadVqsrReused(c, st)
      [] j = "vqsr_eval_job" -> VqsrEvalReused(c, st)
      [] j = "vqsr_final_filter_job" -> VqsrFinalFilterReused(c, st)
      [] j = "final_mt_j" -> FinalMtReused(c, st)
      [] j = "final_ht_j" -> FinalHtReused(c, st)
      [] OTHER -> ExportReused(ChromOf(j), c, st)

\* "executed": cluster.add_job / add_vqsr_jobs; "reused": b.new_job('... [reuse]');
\* "external": the caller's upstream jobs; "absent": not in the graph
JobKind(j, c, st) ==
    IF j = "depends_on"
    THEN IF c.depends_on THEN "external" ELSE "absent"
    ELSE IF j \notin GraphJobs(c) THEN "absent"
    ELSE IF Reused(j, c, st) THEN "reused" ELSE "executed"

(***************************************************************************)
(* Dependency edges                                                        *)
(***************************************************************************)
\* an edge to upstream jobs whether the caller passed any or not
UpstreamDepsAlways(c) == {"depends_on"}

\* the depends_on argument: None/[] or the upstream jobs
UpstreamDeps(c) == IF c.depends_on THEN {"depends_on"} ELSE {}

\* eval_job of add_variant_qc_jobs: the job the branch returns (170, 215)
eval_job(c) ==
    IF c.run_rf THEN "rf_final_filter_job" ELSE "vqsr_final_filter_job"

\* the edge to export_prepare given to the executed job only
ExportDepsExecutedOnly(ex) == IF ex THEN {"final_ht_j"} ELSE {}

\* 284: j.depends_on(final_ht_j), for the executed job and the placeholder
ExportDeps(ex) == {"final_ht_j"}

\* rf_anno_job without its edge to freq_job
RfAnnoDepsNoFreq(ex) == IF ex THEN {"var_qc_anno_job", "info_job"} ELSE {}

\* rf_anno_job without its edge to info_job
RfAnnoDepsNoInfo(ex) == IF ex THEN {"freq_job", "var_qc_anno_job"} ELSE {}

\* 139: rf_anno_job.depends_on(freq_job, var_qc_anno_job, info_job), inside
\* the branch that executes the job
RfAnnoDeps(ex) ==
    IF ex THEN {"freq_job", "var_qc_anno_job", "info_job"} ELSE {}

\* final_mt_j without its edge to the final filter
FinalMtDepsNone(c, ex) == {}

\* 246: final_mt_j.depends_on(eval_job), inside the branch that executes the
\* job
FinalMtDeps(c, ex) == IF ex THEN {eval_job(c)} ELSE {}

\* the RF evaluation given the random forest job alone
RfEvalDepsRfOnly(ex) == IF ex THEN {"rf_job"} ELSE {}

\* 182, 324-325: depends_on=[rf_job, freq_job, rf_anno_job], attached inside
\* the branch that executes the evaluation
RfEvalDeps(ex) == IF ex THEN {"rf_job", "freq_job", "rf_anno_job"} ELSE {}

\* the AS-VQSR evaluation with an edge to the recalibration job as well
VqsrEvalDepsWithVcf(ex) ==
    IF ex THEN {"load_vqsr_job", "rf_anno_job", "vqsr_vcf_job"} ELSE {}

\* 414: eval_job.depends_on(load_vqsr_job, rf_anno_job), inside the branch
\* that executes the evaluation
VqsrEvalDeps(ex) == IF ex THEN {"load_vqsr_job", "rf_anno_job"} ELSE {}

\* the depends_on set of job j, built executed (ex) or as a placeholder
JobDeps(j, c, ex) ==
    CASE j \notin GraphJobs(c) -> {}
      \* 78-79: attached to the executed job and to the placeholder alike
      [] j = "info_job" -> UpstreamDeps(c)
      \* 101-102
      [] j = "var_qc_anno_job" -> IF ex THEN UpstreamDeps(c) ELSE {}
      \* 118-119
      [] j = "freq_job" -> IF ex THEN UpstreamDeps(c) ELSE {}
      \* 139
      [] j = "rf_anno_job" -> RfAnnoDeps(ex)
      \* 166
      [] j = "rf_job" -> IF ex THEN {"rf_anno_job"} ELSE {}
      \* 182, 324-325
      [] j = "rf_eval_job" -> RfEvalDeps(ex)
      \* 344
      [] j = "rf_final_filter_job" -> IF ex THEN {"rf_eval_job"} ELSE {}
      \* 196: add_vqsr_jobs(depends_on=depends_on or [])
      [] j = "vqsr_vcf_job" -> IF ex THEN UpstreamDeps(c) ELSE {}
      \* 384
      [] j = "load_vqsr_job" -> IF ex THEN {"vqsr_vcf_job"} ELSE {}
      \* 414
      [] j = "vqsr_eval_job" -> VqsrEvalDeps(ex)
      \* 435, and 232 on whatever add_vqsr_eval_jobs returned
      [] j = "vqsr_final_filter_job" ->
            (IF ex THEN {"vqsr_eval_job"} ELSE {})
                \cup {"vqsr_vcf_job", "rf_anno_job", "info_job"}
      \* 246
      [] j = "final_mt_j" -> FinalMtDeps(c, ex)
      \* 264
      [] j = "final_ht_j" -> {"final_mt_j"}
      \* 284
      [] OTHER -> ExportDeps(ex)

(***************************************************************************)
(* Clusters                                                                *)
(***************************************************************************)
Clusters == {"VarQC 1", "VarQC 2", "VarQC 3", "RF", "VQSR eval"}

\* the cluster a command is added to; "none" for placeholders and for the
\* AS-VQSR pipeline, which add_vqsr_jobs builds outside the clusters
JobCluster(j, c, ex) ==
    IF ~ ex THEN "none"
    ELSE CASE j = "info_job" -> "VarQC 1"
           [] j = "var_qc_anno_job" -> "VarQC 2"
           [] j \in {"freq_job", "rf_anno_job"} -> "VarQC 3"
           [] j = "vqsr_vcf_job" -> "none"
           [] OTHER -> IF c.run_rf THEN "RF" ELSE "VQSR eval"

\* get_cluster(..., depends_on=...): 48-56, 144-151, 207-214
ClusterDeps(cl, c) ==
    CASE cl \in {"VarQC 1", "VarQC 2", "VarQC 3"} -> UpstreamDeps(c)
      [] cl = "RF" -> {"rf_anno_job"}
      [] cl = "VQSR eval" -> {"rf_anno_job", "vqsr_vcf_job"}
      [] OTHER -> {}

(***************************************************************************)
(* What each job's command reads and writes                                *)
(***************************************************************************)
FamStats(c) == IF c.ped_file THEN {"fam-stats.ht"} ELSE {}

final_filter_ht_path(c) ==
    IF c.run_rf THEN rf_final_filter_ht_path ELSE vqsr_final_filter_ht_path

\* the outputs of a job's command, in the order the command is given them
\* (release_vcf_prepare_ht.py writes the header before the table: 186-210)
JobOutputs(j, c) ==
    CASE j = "info_job" -> <<info_ht_path, info_split_ht_path>>
      [] j = "var_qc_anno_job" -> AnnoPaths(c)
      [] j = "freq_job" -> <<freq_ht_path>>
      [] j = "rf_anno_job" -> <<rf_annotations_ht_path>>
      [] j = "rf_job" -> <<rf_result_ht_path>>
      [] j = "rf_eval_job" -> <<rf_score_bin_ht_path, rf_score_bin_agg_ht_path>>
      [] j = "rf_final_filter_job" -> <<rf_final_filter_ht_path>>
      [] j = "vqsr_vcf_job" -> <<vqsred_vcf_path>>
      [] j = "load_vqsr_job" -> <<vqsr_filters_split_ht_path>>
      [] j = "vqsr_eval_job" ->
            <<vqsr_score_bin_ht_path, vqsr_score_bin_agg_ht_path>>
      [] j = "vqsr_final_filter_job" -> <<vqsr_final_filter_ht_path>>
      [] j = "final_mt_j" -> <<out_filtered_combined_mt_path>>
      [] j = "final_ht_j" -> <<export_vcf_header_txt, export_ht_path>>
      [] j = "depends_on" -> <<>>
      [] OTHER -> <<vcf_path(c.out_filtered_vcf_ptrn_path, ChromOf(j))>>

\* the first n outputs
Written(j, c, n) == {JobOutputs(j, c)[i] : i \in 1..n}

JobWrites(j, c) == Written(j, c, Len(JobOutputs(j, c)))

JobReads(j, c) ==
    CASE j = "rf_anno_job" ->
            {info_split_ht_path, freq_ht_path, allele_data_ht_path,
             qc_ac_ht_path} \cup FamStats(c)
      [] j = "rf_job" -> {rf_annotations_ht_path}
      [] j = "rf_eval_job" ->
            {rf_annotations_ht_path, info_split_ht_path, rf_result_ht_path}
                \cup FamStats(c)
      [] j = "rf_final_filter_job" ->
            {info_split_ht_path, freq_ht_path, rf_score_bin_ht_path,
             rf_score_bin_agg_ht_path}
      [] j = "load_vqsr_job" -> {vqsred_vcf_path}
      [] j = "vqsr_eval_job" ->
            {rf_annotations_ht_path, info_split_ht_path,
             vqsr_filters_split_ht_path} \cup FamStats(c)
      [] j = "vqsr_final_filter_job" ->
            {vqsr_filters_split_ht_path, info_split_ht_path, freq_ht_path,
             vqsr_score_bin_ht_path, vqsr_score_bin_agg_ht_path}
      [] j = "final_mt_j" ->
            {final_filter_ht_path(c), freq_ht_path, info_split_ht_path}
      [] j = "final_ht_j" -> {out_filtered_combined_mt_path}
      [] j \in ExportJobs -> {export_ht_path, export_vcf_header_txt}
      [] OTHER -> {}

\* the jobs of the graph whose command writes the artifact
Producers(a, c) == {p \in GraphJobs(c) : a \in JobWrites(p, c)}

(***************************************************************************)
(* State                                                                   *)
(***************************************************************************)
VARIABLES
    store,      \* the artifacts that exist
    cfg,        \* parameters of the latest add_variant_qc_jobs call, or <<>>
    kind,       \* job -> "absent" | "external" | "executed" | "reused"
    deps,       \* job -> the jobs it depends_on
    cluster,    \* job -> the cluster its command was added to, or "none"
    status,     \* job -> "pending" | "ok" | "failed"
    rf_model_id,            \* the local of the latest call (155), or None
    rf_result_model_id,     \* None, or the model id rf-result.ht was made as
    \* a call of generate_final_filter_ht (final_filter.py)
    pc,                     \* where the call is, "idle" without a call
    args,                   \* the arguments it was called with
    ht,                     \* the rows of the filtering table
    aggregated_bin_ht,      \* None, or the rows of the aggregated bin table
    snp_score_cutoff,       \* the parameter, rebound at line 98
    indel_score_cutoff,     \* the parameter, rebound at line 109
    snp_cutoff_global,      \* the local, None while it is unbound
    indel_cutoff_global,    \* the local, None while it is unbound
    filters,                \* the filters of each row of the table
    annotations_expr,       \* the local: None, or the keys of the dict
    result,                 \* None, or the table returned
    raised                  \* None, or the exception raised

graphvars ==
    <<store, cfg, kind, deps, cluster, status, rf_model_id,
      rf_result_model_id>>

filtervars ==
    <<pc, args, ht, aggregated_bin_ht, snp_score_cutoff, indel_score_cutoff,
      snp_cutoff_global, indel_cutoff_global, filters, annotations_expr,
      result, raised>>

vars == <<graphvars, filtervars>>

None == <<>>

Some(v) == <<v>>

\* no call of generate_final_filter_ht is under way
NoCall ==
    /\ pc = "idle"
    /\ args = None
    /\ ht = {}
    /\ aggregated_bin_ht = None
    /\ snp_score_cutoff = None
    /\ indel_score_cutoff = None
    /\ snp_cutoff_global = None
    /\ indel_cutoff_global = None
    /\ filters = <<>>
    /\ annotations_expr = None
    /\ result = None
    /\ raised = None

\* 155: the values f'rf_{str(uuid.uuid4())[:8]}' takes
ModelIds == {"rf_00000001", "rf_00000002"}

\* the model id of the runs that came before
EarlierModelId == "rf_00000001"

\* no graph is built yet; an rf-result.ht in the store is of an earlier run
NoGraph ==
    /\ rf_model_id = None
    /\ rf_result_model_id =
           IF rf_result_ht_path \in store THEN Some(EarlierModelId) ELSE None
    /\ cfg = <<>>
    /\ kind = [j \in Jobs |-> "absent"]
    /\ deps = [j \in Jobs |-> {}]
    /\ cluster = [j \in Jobs |-> "none"]
    /\ status = [j \in Jobs |-> "pending"]

Init ==
    /\ store = {}
    /\ NoGraph
    /\ NoCall

\* a placeholder has no command: it is over as soon as the jobs it depends
\* on are over
SettleStep(k, d, s) ==
    [j \in Jobs |->
        IF k[j] = "reused" /\ s[j] = "pending" /\ \A x \in d[j] : s[x] = "ok"
        THEN "ok" ELSE s[j]]

RECURSIVE Settle(_, _, _)
Settle(k, d, s) ==
    LET n == SettleStep(k, d, s) IN IF n = s THEN s ELSE Settle(k, d, n)

\* add_variant_qc_jobs(..., overwrite, ped_file, depends_on, run_rf): the
\* whole graph is built from the arguments and the store as it is now; uuid4
\* is the set of model ids the call of uuid.uuid4 may yield
add_variant_qc_jobs(c, uuid4) ==
    /\ rf_model_id' \in IF c.run_rf THEN {Some(u) : u \in uuid4} ELSE {None}
    /\ cfg' = <<c>>
    /\ kind' = [j \in Jobs |-> JobKind(j, c, store)]
    /\ deps' = [j \in Jobs |-> JobDeps(j, c, kind'[j] = "executed")]
    /\ cluster' = [j \in Jobs |-> JobCluster(j, c, kind'[j] = "executed")]
    /\ status' = Settle(kind', deps', [j \in Jobs |-> "pending"])
    /\ UNCHANGED <<store, rf_result_model_id>>
    /\ UNCHANGED filtervars

(***************************************************************************)
(* The batch runtime                                                       *)
(***************************************************************************)
Built == cfg # <<>>

\* what a job waits for: its depends_on set and, for a command on a
\* cluster, the jobs the cluster was started after
Gate(j) ==
    deps[j] \cup (IF cluster[j] = "none" THEN {}
                  ELSE ClusterDeps(cluster[j], cfg[1]))

ChromIndexOfJob ==
    [j \in ExportJobs |-> CHOOSE i \in DOMAIN Chroms : ExportJob(Chroms[i]) = j]

ChromIndex(j) == ChromIndexOfJob[j]

\* The 24 export jobs are alike and independent of each other.  They are
\* taken in the order they were added, and the run is abandoned at the
\* first of them that fails.
ExportTurn(j) ==
    j \in ExportJobs =>
        \A i \in DOMAIN Chroms :
            i < ChromIndex(j) => status[ExportJob(Chroms[i])] = "ok"

Ready(j) ==
    /\ Built
    /\ kind[j] \in {"executed", "external"}
    /\ status[j] = "pending"
    /\ \A d \in Gate(j) : status[d] = "ok"
    /\ ExportTurn(j)

FailedJobs == {j \in Jobs : status[j] = "failed"}

\* the job runs to the end: every output is written
Succeed(j) ==
    /\ Ready(j)
    /\ status' = Settle(kind, deps, [status EXCEPT ![j] = "ok"])
    /\ store' = store \cup JobWrites(j, cfg[1])
    \* random_forest.py --out-model-id (163)
    /\ rf_result_model_id' =
           IF j = "rf_job" THEN rf_model_id ELSE rf_result_model_id
    /\ UNCHANGED <<cfg, kind, deps, cluster, rf_model_id>>
    /\ UNCHANGED filtervars

\* the job fails after it has written the first n of its outputs, n less
\* than their number
Fail(j, n) ==
    /\ Ready(j)
    /\ Cardinality(FailedJobs) < MaxFailures
    /\ n < Len(JobOutputs(j, cfg[1])) \/ n = 0
    /\ status' = [status EXCEPT ![j] = "failed"]
    /\ store' = store \cup Written(j, cfg[1], n)
    /\ UNCHANGED <<cfg, kind, deps, cluster, rf_model_id, rf_result_model_id>>
    /\ UNCHANGED filtervars

\* nothing is left to run: every pending job waits on a failed one
Quiescent == \A j \in Jobs : ~ Ready(j)

\* the pipeline is invoked again once the previous run is over; the
\* filtering strategy of a work bucket stays what the first run chose
Invoke(c) ==
    /\ Quiescent
    /\ Built => c.run_rf = cfg[1].run_rf
    /\ add_variant_qc_jobs(c, {EarlierModelId})

Next ==
    \/ Quiescent /\ \E c \in Configs : Invoke(c)
    \/ \E j \in Jobs : Succeed(j)
    \/ \E j \in Jobs : \E n \in 0..2 : Fail(j, n)

Spec == Init /\ [][Next]_vars

(***************************************************************************)
(* Graph construction alone, over stores that are nearly full or nearly    *)
(* empty: the builder is called, and called again with the same            *)
(* arguments; nothing is run                                               *)
(***************************************************************************)
RECURSIVE SubsetsUpTo(_, _)
SubsetsUpTo(S, n) ==
    IF n = 0 THEN {{}}
    ELSE LET r == SubsetsUpTo(S, n - 1) IN r \cup {x \cup {a} : x \in r, a \in S}

BuildStores ==
    {Artifacts \ m : m \in SubsetsUpTo(Artifacts, MaxMissing)}
        \cup SubsetsUpTo(Artifacts, MaxPresent)

InitBuild ==
    /\ store \in BuildStores
    /\ NoGraph
    /\ NoCall

NextBuild ==
    \E c \in Configs :
        /\ Built => c = cfg[1]
        /\ add_variant_qc_jobs(c, {EarlierModelId})

SpecBuild == InitBuild /\ [][NextBuild]_vars

(***************************************************************************)
(* Graph construction for any output VCF path pattern, over nearly empty   *)
(* stores                                                                  *)
(***************************************************************************)
InitPaths ==
    /\ store \in SubsetsUpTo(Artifacts, MaxPresent)
    /\ NoGraph
    /\ NoCall

NextPaths ==
    \E c \in PatternConfigs :
        /\ ~ Built
        /\ add_variant_qc_jobs(c, {EarlierModelId})

SpecPaths == InitPaths /\ [][NextPaths]_vars

(***************************************************************************)
(* The final filter: generate_final_filter_ht of scripts/final_filter.py   *)
(***************************************************************************)
\* the tables of a call have at most this many rows
MaxRows == 2

\* the filtering scores, the score bins and the bin ids of the tables
Scores == {0, 1}

Bins == {1}

BinIds == {"bin"}

Optional(S) == {None} \cup {Some(v) : v \in S}

\* 13, 31: the default of inbreeding_coeff_cutoff, in tenths
INBREEDING_COEFF_HARD_CUTOFF == -3

\* the inbreeding coefficients of the rows, in tenths
Coeffs == {-4, 0}

\* a row of the filtering table: its variant class, its score (None when it
\* is missing), its inbreeding coefficient (None when it is missing) and the
\* value of ac0_filter_expr on it
HardRows ==
    [ snv : BOOLEAN, score : Optional(Scores),
      InbreedingCoeff : Optional(Coeffs), AC0 : BOOLEAN ]

\* the rows that no hard filter applies to
HtRows == {r \in HardRows : r.InbreedingCoeff = Some(0) /\ ~r.AC0}

\* a row of the aggregated bin table
AggRows == [snv : BOOLEAN, bin_id : BinIds, bin : Bins, min_score : Scores]

Tables(rows) == SubsetsUpTo(rows, MaxRows)

\* --model-name and --score-name as the graph builder pairs them
\* (variant_qc.py:336-337, 426-427)
ScoreName(model_name) == IF model_name = "RF" THEN "RF" ELSE "AS_VQSLOD"

CallArgs ==
    { a \in [ model_name : {"RF", "VQSR"},
              score_name : {"RF", "AS_VQSLOD"},
              snp_bin_cutoff : Optional({0} \cup Bins),
              indel_bin_cutoff : Optional({0} \cup Bins),
              snp_score_cutoff : Optional(Scores),
              indel_score_cutoff : Optional(Scores),
              bin_id : Optional(BinIds) ] :
          a.score_name = ScoreName(a.model_name) }

\* the cutoff settings of the script: all four are None
final_filter_cutoffs ==
    [ snp_bin_cutoff |-> None, snp_score_cutoff |-> None,
      indel_bin_cutoff |-> None, indel_score_cutoff |-> None ]

\* `if x:` for a number or None
Truthy(x) == x # None /\ x[1] # 0

\* 69-87: the line of the ValueError the cutoffs raise, 0 if they raise none
CutoffError(a) ==
    IF a.snp_bin_cutoff # None /\ a.snp_score_cutoff # None THEN 70
    ELSE IF a.indel_bin_cutoff # None /\ a.indel_score_cutoff # None THEN 75
    ELSE IF a.snp_bin_cutoff = None /\ a.snp_score_cutoff = None THEN 80
    ELSE IF a.indel_bin_cutoff = None /\ a.indel_score_cutoff = None THEN 85
    ELSE 0

\* 69-94
ArgumentError(a, agg) ==
    IF CutoffError(a) # 0 THEN CutoffError(a)
    ELSE IF (a.snp_bin_cutoff # None \/ a.indel_bin_cutoff # None)
               /\ (agg = None \/ a.bin_id = None) THEN 92
    ELSE 0

SetMin(S) == CHOOSE x \in S : \A y \in S : x <= y

SetMax(S) == CHOOSE x \in S : \A y \in S : x >= y

\* the greatest min_score of the rows instead of the least
BinScoreMax(agg, snv, bin_id, bin) ==
    LET S == {r.min_score :
                 r \in {x \in agg : x.snv = snv /\ x.bin_id = bin_id
                                                /\ x.bin = bin}}
    IN IF S = {} THEN None ELSE Some(SetMax(S))

\* 98-105, 109-116: the least min_score of the rows of the class, the bin id
\* and the bin; None when no row matches
BinScore(agg, snv, bin_id, bin) ==
    LET S == {r.min_score :
                 r \in {x \in agg : x.snv = snv /\ x.bin_id = bin_id
                                                /\ x.bin = bin}}
    IN IF S = {} THEN None ELSE Some(SetMin(S))

\* 121-122: hl.agg.min and hl.agg.max skip the missing scores
DefinedScores(t) == {r.score[1] : r \in {x \in t : x.score # None}}

min_score(t) ==
    IF DefinedScores(t) = {} THEN None ELSE Some(SetMin(DefinedScores(t)))

max_score(t) ==
    IF DefinedScores(t) = {} THEN None ELSE Some(SetMax(DefinedScores(t)))

\* 125, 130: the comparison with the range of the scores
RangeCheck(c, t) ==
    IF min_score(t) = None THEN "TypeError"
    ELSE IF c < min_score(t)[1] \/ c > max_score(t)[1] THEN "ValueError"
    ELSE "ok"

InitFilter ==
    /\ store = {}
    /\ NoGraph
    /\ pc = "called"
    /\ args \in CallArgs
    /\ ht \in Tables(HtRows)
    /\ aggregated_bin_ht \in Optional(Tables(AggRows))
    /\ snp_score_cutoff = args.snp_score_cutoff
    /\ indel_score_cutoff = args.indel_score_cutoff
    /\ snp_cutoff_global = None
    /\ indel_cutoff_global = None
    /\ filters = <<>>
    /\ annotations_expr = None
    /\ result = None
    /\ raised = None

\* the exception leaves the function
Raise(exc, line) ==
    /\ pc' = "raised"
    /\ raised' = Some([exc |-> exc, line |-> line])
    /\ UNCHANGED <<args, ht, aggregated_bin_ht, snp_score_cutoff,
                   indel_score_cutoff, snp_cutoff_global, indel_cutoff_global,
                   filters, annotations_expr, result>>
    /\ UNCHANGED graphvars

\* 69-94
CheckArguments ==
    /\ pc = "called"
    /\ IF ArgumentError(args, aggregated_bin_ht) # 0
       THEN Raise("ValueError", ArgumentError(args, aggregated_bin_ht))
       ELSE /\ pc' = "bins"
            /\ UNCHANGED <<args, ht, aggregated_bin_ht, snp_score_cutoff,
                           indel_score_cutoff, snp_cutoff_global,
                           indel_cutoff_global, filters, annotations_expr,
                           result, raised>>
            /\ UNCHANGED graphvars

\* 96-119: hl.struct cannot take the None of a lookup that matched no row
ResolveBins ==
    /\ pc = "bins"
    /\ LET snp_on == Truthy(args.snp_bin_cutoff)
           indel_on == Truthy(args.indel_bin_cutoff)
           snp_min == BinScore(aggregated_bin_ht[1], TRUE, args.bin_id[1],
                               args.snp_bin_cutoff[1])
           indel_min == BinScore(aggregated_bin_ht[1], FALSE, args.bin_id[1],
                                 args.indel_bin_cutoff[1])
       IN IF snp_on /\ snp_min = None THEN Raise("ExpressionException", 106)
          ELSE IF indel_on /\ indel_min = None
          THEN Raise("ExpressionException", 117)
          ELSE /\ pc' = "range"
               /\ snp_score_cutoff' =
                      IF snp_on THEN snp_min ELSE snp_score_cutoff
               /\ snp_cutoff_global' =
                      IF snp_on
                      THEN Some([bin |-> args.snp_bin_cutoff[1],
                                 min_score |-> snp_min[1]])
                      ELSE snp_cutoff_global
               /\ indel_score_cutoff' =
                      IF indel_on THEN indel_min ELSE indel_score_cutoff
               /\ indel_cutoff_global' =
                      IF indel_on
                      THEN Some([bin |-> args.indel_bin_cutoff[1],
                                 min_score |-> indel_min[1]])
                      ELSE indel_cutoff_global
               /\ UNCHANGED <<args, ht, aggregated_bin_ht, filters,
                              annotations_expr, result, raised>>
               /\ UNCHANGED graphvars

\* 121-132
ScoreRange ==
    /\ pc = "range"
    /\ LET snp_on == Truthy(snp_score_cutoff)
           indel_on == Truthy(indel_score_cutoff)
           snp_check == RangeCheck(snp_score_cutoff[1], ht)
           indel_check == RangeCheck(indel_score_cutoff[1], ht)
       IN IF snp_on /\ snp_check # "ok"
          THEN Raise(snp_check, IF snp_check = "TypeError" THEN 125 ELSE 126)
          ELSE IF indel_on /\ indel_check # "ok"
          THEN Raise(indel_check,
                     IF indel_check = "TypeError" THEN 130 ELSE 131)
          ELSE /\ pc' = "filters"
               /\ snp_cutoff_global' =
                      IF snp_on
                      THEN Some([min_score |-> snp_score_cutoff[1]])
                      ELSE snp_cutoff_global
               /\ indel_cutoff_global' =
                      IF indel_on
                      THEN Some([min_score |-> indel_score_cutoff[1]])
                      ELSE indel_cutoff_global
               /\ UNCHANGED <<args, ht, aggregated_bin_ht, snp_score_cutoff,
                              indel_score_cutoff, filters, annotations_expr,
                              result, raised>>
               /\ UNCHANGED graphvars

\* 145-160, 187: the names add_filters_expr collects for a row, those of the
\* entries of filters that are true of it; hl.or_else turns the comparison
\* with a missing InbreedingCoeff into False
RowFilters(r, model_name, snp_cutoff, indel_cutoff) ==
    (IF \/ r.score = None
        \/ r.score[1] < (IF r.snv THEN snp_cutoff.min_score
                                  ELSE indel_cutoff.min_score)
     THEN {model_name} ELSE {})
    \cup (IF /\ r.InbreedingCoeff # None
              /\ r.InbreedingCoeff[1] < INBREEDING_COEFF_HARD_CUTOFF
           THEN {"InbreedingCoeff"} ELSE {})
    \cup (IF r.AC0 THEN {"AC0"} ELSE {})

\* the filters built without the test of lines 141-143: a row without a
\* score is filtered by hl.is_missing(ht.score) (146)
AddFiltersUnchecked ==
    /\ pc = "filters"
    /\ IF snp_cutoff_global = None THEN Raise("UnboundLocalError", 149)
       ELSE IF indel_cutoff_global = None
       THEN Raise("UnboundLocalError", 153)
       ELSE /\ pc' = "annotations"
            /\ filters' =
                   [r \in ht |->
                       RowFilters(r, args.model_name, snp_cutoff_global[1],
                                  indel_cutoff_global[1])]
            /\ UNCHANGED <<args, ht, aggregated_bin_ht, snp_score_cutoff,
                           indel_score_cutoff, snp_cutoff_global,
                           indel_cutoff_global, annotations_expr, result,
                           raised>>
            /\ UNCHANGED graphvars

\* 138-160: the model's filter of a row; reading a cutoff global that no
\* branch above has bound is an UnboundLocalError
AddFilters ==
    /\ pc = "filters"
    /\ IF \E r \in ht : r.score = None THEN Raise("ValueError", 143)
       ELSE IF snp_cutoff_global = None THEN Raise("UnboundLocalError", 149)
       ELSE IF indel_cutoff_global = None
       THEN Raise("UnboundLocalError", 153)
       ELSE /\ pc' = "annotations"
            /\ filters' =
                   [r \in ht |->
                       RowFilters(r, args.model_name, snp_cutoff_global[1],
                                  indel_cutoff_global[1])]
            /\ UNCHANGED <<args, ht, aggregated_bin_ht, snp_score_cutoff,
                           indel_score_cutoff, snp_cutoff_global,
                           indel_cutoff_global, annotations_expr, result,
                           raised>>
            /\ UNCHANGED graphvars

\* 162-184: dict.update returns None, so for RF annotations_expr is None at
\* line 171
Annotate ==
    /\ pc = "annotations"
    /\ IF args.model_name = "RF" THEN Raise("AttributeError", 171)
       ELSE /\ pc' = "transmute"
            /\ annotations_expr' = Some({"transmitted_singleton"})
            /\ UNCHANGED <<args, ht, aggregated_bin_ht, snp_score_cutoff,
                           indel_score_cutoff, snp_cutoff_global,
                           indel_cutoff_global, filters, result, raised>>
            /\ UNCHANGED graphvars

\* 186-229
Return ==
    /\ pc = "transmute"
    /\ pc' = "returned"
    /\ result' =
           Some([ filters |-> filters,
                  score_name |-> args.score_name,
                  annotations |-> annotations_expr[1],
                  filtering_model |->
                      [ model_name |-> args.model_name,
                        score_name |-> args.score_name,
                        snv_cutoff |-> snp_cutoff_global[1],
                        indel_cutoff |-> indel_cutoff_global[1] ] ])
    /\ UNCHANGED <<args, ht, aggregated_bin_ht, snp_score_cutoff,
                   indel_score_cutoff, snp_cutoff_global, indel_cutoff_global,
                   filters, annotations_expr, raised>>
    /\ UNCHANGED graphvars

NextFilter ==
    \/ CheckArguments
    \/ ResolveBins
    \/ ScoreRange
    \/ AddFilters
    \/ Annotate
    \/ Return

SpecFilter == InitFilter /\ [][NextFilter]_vars

(***************************************************************************)
(* generate_final_filter_ht on tables whose rows the hard filters tell     *)
(* apart: every row has a score, and each variant class has one cutoff,    *)
(* a bin or a score                                                        *)
(***************************************************************************)
HardCallArgs ==
    { a \in CallArgs :
          /\ a.model_name = "VQSR"
          /\ a.bin_id # None
          /\ CutoffError(a) = 0 }

InitHardFilters ==
    /\ store = {}
    /\ NoGraph
    /\ pc = "called"
    /\ args \in HardCallArgs
    /\ ht \in Tables({r \in HardRows : r.score # None})
    /\ aggregated_bin_ht \in Optional(Tables(AggRows))
    /\ snp_score_cutoff = args.snp_score_cutoff
    /\ indel_score_cutoff = args.indel_score_cutoff
    /\ snp_cutoff_global = None
    /\ indel_cutoff_global = None
    /\ filters = <<>>
    /\ annotations_expr = None
    /\ result = None
    /\ raised = None

SpecHardFilters == InitHardFilters /\ [][NextFilter]_vars

(***************************************************************************)
(* The final-filter stage from both sides: a call of                       *)
(* generate_final_filter_ht, or one run, without overwrite, of the graph   *)
(* built on a work bucket that earlier runs of either branch have filled   *)
(* up to the evaluation, and in which any of the later artifacts may be    *)
(* missing                                                                 *)
(***************************************************************************)
LateArtifacts ==
    { rf_final_filter_ht_path, vqsr_final_filter_ht_path,
      out_filtered_combined_mt_path, export_ht_path, export_vcf_header_txt }

ResumeStores ==
    {Artifacts \ (m \cup v) : m \in SUBSET LateArtifacts, v \in {{}, VcfPaths}}

InitResume ==
    /\ store \in ResumeStores
    /\ NoGraph
    /\ NoCall

Resume(c) ==
    /\ ~ Built
    /\ ~ c.overwrite
    /\ add_variant_qc_jobs(c, {EarlierModelId})

InitStage == InitResume \/ InitFilter

NextStage ==
    \/ NextFilter
    \/ pc = "idle" /\ \E c \in Configs : Resume(c)
    \/ pc = "idle" /\ \E j \in Jobs : Succeed(j)
    \/ pc = "idle" /\ \E j \in Jobs : \E n \in 0..2 : Fail(j, n)

SpecStage == InitStage /\ [][NextStage]_vars

(***************************************************************************)
(* Properties                                                              *)
(***************************************************************************)
\* the graph has just been built: no command of it has run yet, so the
\* store is the one the builder saw
Fresh ==
    /\ Built
    /\ \A j \in Jobs : kind[j] \in {"executed", "external"} => status[j] = "pending"

InGraph(j) == kind[j] \in {"executed", "reused"}

\* the jobs of the graph that write the artifact
Writers(a) == {p \in Stages : InGraph(p) /\ a \in JobWrites(p, cfg[1])}

\* C1: an executed job that has run reads no artifact whose producing job,
\* executed in the same graph, has not completed successfully
C1_ReadsAfterProducer ==
    Built =>
        \A j \in Stages :
            (kind[j] = "executed" /\ status[j] # "pending") =>
                \A a \in JobReads(j, cfg[1]) :
                    \A p \in Writers(a) :
                        kind[p] = "executed" => status[p] = "ok"

\* C2: a graph built with run_rf has no job of the recalibration branch, a
\* graph built without it has no job of the RF branch, and the jobs of the
\* selected branch are all there
C2_OneBranch ==
    Built =>
        /\ cfg[1].run_rf =>
              /\ \A j \in VqsrJobs : kind[j] = "absent"
              /\ \A j \in RfJobs : InGraph(j)
        /\ ~ cfg[1].run_rf =>
              /\ \A j \in RfJobs : kind[j] = "absent"
              /\ \A j \in VqsrJobs : InGraph(j)

C2_Witness ==
    /\ Built
    /\ ~ cfg[1].run_rf
    /\ kind["vqsr_vcf_job"] = "reused"
    /\ kind["load_vqsr_job"] = "executed"
    /\ rf_result_ht_path \in store

\* C3: the graph has 24 export jobs, one per chromosome, each depending on
\* export_prepare (final_ht_j) and on nothing else
C3_ExportFanOut ==
    Built =>
        /\ Cardinality({j \in Jobs : InGraph(j) /\ j \in ExportJobs}) = 24
        /\ Cardinality(ExportJobs) = 24
        /\ \A j \in ExportJobs : InGraph(j) /\ deps[j] = {"final_ht_j"}

C3_Witness ==
    /\ Built
    /\ kind[ExportJob("1")] = "reused"
    /\ kind[ExportJob("Y")] = "executed"
    /\ kind["final_ht_j"] = "reused"

C5_OverwriteExecutesAll ==
    (Built /\ cfg[1].overwrite) =>
        \A j \in Stages : InGraph(j) => kind[j] = "executed"

\* C6: without overwrite a job with several outputs is a placeholder only
\* if all of its outputs exist, and is executed if one is missing
MultiOutputJobs ==
    {"info_job", "var_qc_anno_job", "rf_eval_job", "vqsr_eval_job", "final_ht_j"}

C6_ReusedOnlyIfAllOutputs ==
    (Fresh /\ ~ cfg[1].overwrite) =>
        \A j \in MultiOutputJobs :
            InGraph(j) =>
                (kind[j] = "reused" <=> JobWrites(j, cfg[1]) \subseteq store)

\* C7: without overwrite and with every artifact of the pipeline in the
\* store, every job of the graph is a placeholder and no cluster is given
\* a command
PipelineArtifacts(c) ==
    CoreArtifacts \cup {vcf_path(c.out_filtered_vcf_ptrn_path, ch) : ch \in ChromSet}

C7_AllReused ==
    (Built /\ ~ cfg[1].overwrite /\ PipelineArtifacts(cfg[1]) \subseteq store) =>
        \A j \in Stages :
            /\ InGraph(j) => kind[j] = "reused"
            /\ cluster[j] = "none"

C7_Witness ==
    /\ Built
    /\ ~ cfg[1].overwrite
    /\ cfg[1].run_rf
    /\ cfg[1].ped_file
    /\ PipelineArtifacts(cfg[1]) \subseteq store
    /\ \A j \in RfJobs \cup CommonJobs : status[j] = "ok"

\* C8: when the pipeline is invoked again with the same arguments and
\* without overwrite, a job that completed in the run before is a
\* placeholder and a job that did not complete is executed again
C8_Resumption ==
    [][ (Built /\ Fresh' /\ cfg' = cfg /\ ~ cfg[1].overwrite) =>
            \A j \in Stages :
                kind[j] = "executed" =>
                    /\ status[j] = "ok" => kind'[j] = "reused"
                    /\ status[j] # "ok" => kind'[j] = "executed" ]_vars

\* C9: in generate_final_filter_ht, a class given both cutoffs or neither
\* ends the call in a ValueError of the argument checks, and a call that
\* was given exactly one cutoff per class comes to build the filters with
\* the cutoff of each class defined
BothOrNeither(a) ==
    \/ (a.snp_bin_cutoff = None) = (a.snp_score_cutoff = None)
    \/ (a.indel_bin_cutoff = None) = (a.indel_score_cutoff = None)

\* a bin cutoff, when given, is one of the bins
AdmissibleBins(a) ==
    \A b \in {a.snp_bin_cutoff, a.indel_bin_cutoff} : b = None \/ b[1] \in Bins

C9_ExactlyOneCutoff ==
    /\ (pc \notin {"idle", "called"} /\ BothOrNeither(args)) =>
           /\ pc = "raised"
           /\ raised[1].exc = "ValueError"
           /\ raised[1].line \in {70, 75, 80, 85}
    /\ (pc = "filters" /\ AdmissibleBins(args)) =>
           /\ ~ BothOrNeither(args)
           /\ snp_cutoff_global # None
           /\ indel_cutoff_global # None

\* C10: no graph with an executed final-filter job is built while the
\* cutoff settings of the final filter are a configuration error (both or
\* neither cutoff of a class): the error is raised when the graph is built
FinalFilterJobs == {"rf_final_filter_job", "vqsr_final_filter_job"}

C10_CutoffErrorAtConstruction ==
    \A j \in FinalFilterJobs :
        kind[j] = "executed" => CutoffError(final_filter_cutoffs) = 0

\* C11: a reused placeholder has an empty dependency list in every graph:
\* this includes the info stage when the caller passed depends_on, the export
\* preparation stage, the per-chromosome export stages and the AS-VQSR final
\* filter stage
C11_ReusedNoDeps ==
    Built => \A j \in Stages : kind[j] = "reused" => deps[j] = {}

\* C12: within one graph every artifact path is the output of at most one
\* stage that is run, for every value of the run-level parameters, the output
\* VCF path pattern included
C12_OneWriterPerPath ==
    Built =>
        \A a \in Artifacts :
            Cardinality({p \in Writers(a) : kind[p] = "executed"}) <= 1

\* C13: when the caller gave a depends_on list, no executed stage of the graph
\* has started while a job of that list is not yet over, whatever artifacts
\* exist
C13_UpstreamFirst ==
    Built /\ cfg[1].depends_on =>
        \A j \in Stages :
            kind[j] = "executed" /\ status[j] # "pending" =>
                status["depends_on"] = "ok"

\* C14: in every execution export_prepare and every per-chromosome export
\* start only after the terminal final-filter stage of the branch, in the same
\* graph, is over
C14_ExportsAfterFinalFilter ==
    Built =>
        \A j \in {"final_ht_j"} \cup ExportJobs :
            kind[j] = "executed" /\ status[j] # "pending" =>
                status[eval_job(cfg[1])] = "ok"

\* C14 as it holds: in every execution in which final_dataset is executed,
\* export_prepare and every per-chromosome export start only after
\* final_dataset and the terminal final-filter stage of the branch, in the
\* same graph, are over
C14_ExportsAfterExecutedDataset ==
    Built /\ kind["final_mt_j"] = "executed" =>
        \A j \in {"final_ht_j"} \cup ExportJobs :
            kind[j] = "executed" /\ status[j] # "pending" =>
                /\ status[eval_job(cfg[1])] = "ok"
                /\ status["final_mt_j"] = "ok"

\* final_dataset and the final filter were run, and export_prepare and an
\* export after them
C14_Witness ==
    /\ Built
    /\ kind["final_mt_j"] = "executed"
    /\ kind[eval_job(cfg[1])] = "executed"
    /\ kind["final_ht_j"] = "executed" /\ status["final_ht_j"] = "ok"
    /\ \E j \in ExportJobs : kind[j] = "executed" /\ status[j] = "ok"

\* the scenario of C15: a graph built without overwrite on a store that has
\* info.ht and info-split.ht and lacks frequencies.ht
InfoDoneFreqMissing ==
    /\ Built
    /\ ~ cfg[1].overwrite
    /\ file_exists(info_ht_path, store)
    /\ file_exists(info_split_ht_path, store)
    /\ ~ file_exists(freq_ht_path, store)

\* C15: in that scenario, whatever other artifacts exist, the info stage is
\* reused, the frequencies stage is executed and the rf_annotations stage has
\* a dependency edge on the frequencies stage
C15_FreqDependedUpon ==
    InfoDoneFreqMissing =>
        /\ kind["info_job"] = "reused"
        /\ kind["freq_job"] = "executed"
        /\ "freq_job" \in deps["rf_anno_job"]

\* C15 as it holds: in that scenario the info stage is reused, the
\* frequencies stage is executed, and the rf_annotations stage depends on the
\* frequencies stage when it is executed itself; as a placeholder
\* (rf-annotations.ht exists) it has no edge
C15_FreqDependedUponByExecuted ==
    InfoDoneFreqMissing =>
        /\ kind["info_job"] = "reused"
        /\ kind["freq_job"] = "executed"
        /\ kind["rf_anno_job"] = "executed" => "freq_job" \in deps["rf_anno_job"]
        /\ kind["rf_anno_job"] = "reused" => deps["rf_anno_job"] = {}

C15_Witness ==
    /\ InfoDoneFreqMissing
    /\ kind["rf_anno_job"] = "executed"
    /\ kind["var_qc_anno_job"] = "reused"

\* C16: with run_rf false, overwrite false and vqsr/output.vcf.gz existing,
\* the recalibration stage is a reused placeholder, and load_vqsr is executed
\* whenever vqsr-filters-split.ht is missing
C16_RecalibrationReused ==
    (/\ Built
     /\ ~ cfg[1].run_rf
     /\ ~ cfg[1].overwrite
     /\ file_exists(vqsred_vcf_path, store)) =>
        /\ kind["vqsr_vcf_job"] = "reused"
        /\ ~ file_exists(vqsr_filters_split_ht_path, store) =>
               kind["load_vqsr_job"] = "executed"

C16_Witness ==
    /\ Built
    /\ ~ cfg[1].run_rf
    /\ ~ cfg[1].overwrite
    /\ file_exists(vqsred_vcf_path, store)
    /\ ~ file_exists(vqsr_filters_split_ht_path, store)
    /\ kind["vqsr_vcf_job"] = "reused"
    /\ kind["load_vqsr_job"] = "executed"
    /\ deps["load_vqsr_job"] = {"vqsr_vcf_job"}

\* C17: for model_name RF and VQSR alike, a call of generate_final_filter_ht
\* whose arguments and table have passed every check (the filters are built:
\* lines 69-160) does not end in an error, and the table it returns has the
\* score under score_name and the global filtering_model with model_name,
\* score_name, snv_cutoff and indel_cutoff
C17_SameContract ==
    /\ pc = "raised" => raised[1].line < 162
    /\ pc = "returned" =>
           /\ result # None
           /\ result[1].score_name = args.score_name
           /\ result[1].filtering_model =
                  [ model_name |-> args.model_name,
                    score_name |-> args.score_name,
                    snv_cutoff |-> snp_cutoff_global[1],
                    indel_cutoff |-> indel_cutoff_global[1] ]

\* C18: the final-filter step never goes ahead without the aggregated-bin
\* table of its model: no graph is built in which the final-filter job is to
\* run although that table is absent and no stage of the graph writes it
\* (the construction of the branch is aborted instead)
C18_MissingBinsAbort ==
    Built =>
        \A j \in FinalFilterJobs :
            LET agg == IF j = "rf_final_filter_job"
                       THEN rf_score_bin_agg_ht_path
                       ELSE vqsr_score_bin_agg_ht_path
            IN  ~ /\ kind[j] = "executed"
                  /\ ~ file_exists(agg, store)
                  /\ \A p \in Writers(agg) : kind[p] = "reused"

\* a call on a table with a row that has no score never returns a table: it
\* never gets past line 143, and when it gets there it raises 'Missing
\* Score!'
MissingScoreRaises ==
    (pc # "idle" /\ \E r \in ht : r.score = None) =>
        /\ result = None
        /\ pc \notin {"annotations", "transmute", "returned"}
        /\ (pc = "raised" /\ raised[1].line >= 138) =>
               raised[1] = [exc |-> "ValueError", line |-> 143]

\* the executed final-filter job of the graph has failed
FinalFilterFailed ==
    /\ Built
    /\ kind[eval_job(cfg[1])] = "executed"
    /\ status[eval_job(cfg[1])] = "failed"

Dependents == {"final_mt_j", "final_ht_j"} \cup ExportJobs

FirstRound == {"freq_job", "var_qc_anno_job", "info_job"}

\* C20: an executed rf_annotations stage has a dependency edge to each of
\* frequencies, annotations and info, executed or reused, and has not started
\* while one of them that is executed in the same graph is not over
C20_RfAnnotationsAfterFirstRound ==
    Built /\ kind["rf_anno_job"] = "executed" =>
        /\ FirstRound \subseteq deps["rf_anno_job"]
        /\ status["rf_anno_job"] # "pending" =>
               \A f \in FirstRound : kind[f] = "executed" => status[f] = "ok"

\* rf_annotations has run in a graph with an executed and a reused
\* first-round stage
C20_Witness ==
    /\ Built
    /\ kind["rf_anno_job"] = "executed"
    /\ status["rf_anno_job"] = "ok"
    /\ \E f \in FirstRound : kind[f] = "executed"
    /\ \E f \in FirstRound : kind[f] = "reused"

\* C21: in the RF branch an executed random forest job depends on
\* rf_annotations, an executed RF evaluation depends on exactly the random
\* forest, frequencies and rf_annotations jobs, and an executed RF final
\* filter depends on the RF evaluation
C21_RfBranchEdges ==
    Built /\ cfg[1].run_rf =>
        /\ kind["rf_job"] = "executed" => "rf_anno_job" \in deps["rf_job"]
        /\ kind["rf_eval_job"] = "executed" =>
               deps["rf_eval_job"] = {"rf_job", "freq_job", "rf_anno_job"}
        /\ kind["rf_final_filter_job"] = "executed" =>
               "rf_eval_job" \in deps["rf_final_filter_job"]

\* an RF graph in which the evaluation and the final filter are executed and
\* the random forest is reused
C21_Witness ==
    /\ Built
    /\ cfg[1].run_rf
    /\ kind["rf_job"] = "reused"
    /\ kind["rf_eval_job"] = "executed"
    /\ kind["rf_final_filter_job"] = "executed"
    /\ kind["freq_job"] = "reused"

\* C22: in the recalibration branch an executed load_vqsr job depends on the
\* recalibration job, and an executed AS-VQSR evaluation depends on exactly
\* the load_vqsr and rf_annotations jobs
C22_VqsrBranchEdges ==
    Built /\ ~ cfg[1].run_rf =>
        /\ kind["load_vqsr_job"] = "executed" =>
               "vqsr_vcf_job" \in deps["load_vqsr_job"]
        /\ kind["vqsr_eval_job"] = "executed" =>
               deps["vqsr_eval_job"] = {"load_vqsr_job", "rf_anno_job"}

\* a recalibration graph in which load_vqsr is reused and the evaluation is
\* executed
C22_Witness ==
    /\ Built
    /\ ~ cfg[1].run_rf
    /\ kind["vqsr_vcf_job"] = "executed"
    /\ kind["load_vqsr_job"] = "reused"
    /\ kind["vqsr_eval_job"] = "executed"

\* the evaluation job of the branch of a final-filter job
EvalJobOf(j) ==
    IF j = "rf_final_filter_job" THEN "rf_eval_job" ELSE "vqsr_eval_job"

\* C23: in both branches an executed final-filter job depends on the
\* evaluation job of its branch and on the info job, the producer of
\* info-split.ht, which its command reads
C23_FinalFilterEdges ==
    Built =>
        \A j \in FinalFilterJobs :
            kind[j] = "executed" => {EvalJobOf(j), "info_job"} \subseteq deps[j]


\* the rows of the aggregated bin table that a bin cutoff of a class selects
BinRows(snv, bin) ==
    {x \in aggregated_bin_ht[1] :
        x.snv = snv /\ x.bin_id = args.bin_id[1] /\ x.bin = bin[1]}

\* m is the least min_score of the rows
LeastMinScore(m, rows) ==
    /\ \E x \in rows : x.min_score = m
    /\ \A x \in rows : m <= x.min_score

FiltersBuilt == pc \in {"annotations", "transmute", "returned"}

LiveStores ==
    { x \cup v :
          x \in SubsetsUpTo(CoreArtifacts, MaxPresent)
                    \cup {CoreArtifacts \ m :
                              m \in SubsetsUpTo(CoreArtifacts, MaxPresent)},
          v \in {{}, VcfPaths} }
        \cup ResumeStores

InitLive ==
    /\ store \in LiveStores
    /\ NoGraph
    /\ NoCall

Build(c) ==
    /\ ~ Built
    /\ add_variant_qc_jobs(c, {EarlierModelId})

NextLive ==
    \/ \E c \in Configs : Build(c)
    \/ \E j \in Jobs : Succeed(j)

SpecLive == InitLive /\ [][NextLive]_vars /\ WF_vars(NextLive)

\* every job of the graph is over
AllDone ==
    /\ Built
    /\ \A j \in Jobs : kind[j] # "absent" => status[j] = "ok"

\* C25: in a run without failures every job of the graph, executed or
\* placeholder, the 24 exports among them, is eventually over
C25_EveryStageCompletes == <>[]AllDone

\* a run is over in which the 24 exports were executed behind placeholders
C25_Witness ==
    /\ AllDone
    /\ \A j \in ExportJobs : kind[j] = "executed"
    /\ \E j \in Stages : kind[j] = "reused"


(***************************************************************************)
(* Runs of one filtering strategy without overwrite, from an empty work    *)
(* bucket; any job may fail                                                *)
(***************************************************************************)
Rerun(c) ==
    /\ ~ c.overwrite
    /\ Invoke(c)

NextRerun ==
    \/ Quiescent /\ \E c \in Configs : Rerun(c)
    \/ \E j \in Jobs : Succeed(j)
    \/ \E j \in Jobs : \E n \in 0..2 : Fail(j, n)

SpecRerun == Init /\ [][NextRerun]_vars

\* the jobs that are over before j can start
RECURSIVE Before(_, _)
Before(S, n) ==
    IF n = 0 THEN S
    ELSE Before(S \cup UNION {Gate(x) : x \in S}, n - 1)

ScheduledBefore(j) == Before(Gate(j), Cardinality(Jobs))

\* C26: in a graph built without overwrite on what earlier runs of the same
\* strategy left behind, every artifact an executed job reads is in the
\* store or is written by an executed job scheduled before it
C26_ReadsInStoreOrScheduled ==
    Fresh =>
        \A j \in Stages :
            kind[j] = "executed" =>
                \A a \in JobReads(j, cfg[1]) :
                    \/ a \in store
                    \/ \E p \in ScheduledBefore(j) :
                           /\ kind[p] = "executed"
                           /\ a \in JobWrites(p, cfg[1])


(***************************************************************************)
(* Runs in which every call of the builder draws its model id: the builder *)
(* is called on an empty work bucket, called again with the same arguments *)
(* before anything has run, and called again when a run is over            *)
(***************************************************************************)
Construct(c) ==
    /\ Quiescent \/ (Fresh /\ c = cfg[1])
    /\ Built => c.run_rf = cfg[1].run_rf
    /\ add_variant_qc_jobs(c, ModelIds)

\* the calls without a pedigree and without upstream jobs
PlainConfigs == {c \in Configs : ~ c.ped_file /\ ~ c.depends_on}

NextModelId ==
    \/ \E c \in PlainConfigs : Construct(c)
    \/ \E j \in Jobs : Succeed(j)
    \/ \E j \in Jobs : \E n \in 0..2 : Fail(j, n)

SpecModelId == Init /\ [][NextModelId]_vars

\* C27: once the executed RF final filter has run, the --model-id of its
\* command is the model id the rf-result.ht of the store was made under
C27_FinalFilterModelId ==
    (/\ Built
     /\ kind["rf_final_filter_job"] = "executed"
     /\ status["rf_final_filter_job"] # "pending")
        => rf_result_model_id = rf_model_id

\* the model id in the command of a job: --out-model-id of random_forest.py
\* (163) and --model-id of final_filter.py (334)
ModelIdArg(j) ==
    IF kind[j] = "executed" /\ j \in {"rf_job", "rf_final_filter_job"}
    THEN rf_model_id ELSE None

ModelIdArgs == [j \in Stages |-> ModelIdArg(j)]

\* C28: a second call of the builder with the same arguments on the same
\* store builds the same jobs, commands, clusters and edges
C28_Deterministic ==
    [][(Fresh /\ Fresh' /\ cfg' = cfg /\ store' = store)
           => /\ kind' = kind
              /\ deps' = deps
              /\ cluster' = cluster
              /\ ModelIdArgs' = ModelIdArgs]_vars


\* the cutoff global of a class: {bin, min_score} for a bin cutoff,
\* {min_score} for a score cutoff
CutoffRecorded(global, bin_cutoff, score_cutoff, snv) ==
    /\ bin_cutoff # None =>
           /\ DOMAIN global = {"bin", "min_score"}
           /\ global.bin = bin_cutoff[1]
           /\ LeastMinScore(global.min_score, BinRows(snv, bin_cutoff))
    /\ score_cutoff # None =>
           /\ DOMAIN global = {"min_score"}
           /\ global.min_score = score_cutoff[1]

RepoScriptJobs ==
    {"rf_anno_job", "rf_final_filter_job", "vqsr_final_filter_job",
     "final_ht_j"}

\* variant_qc.py:127, 331, 421, 256
Script(j) ==
    CASE j = "rf_anno_job" -> "create_rf_annotations.py"
      [] j = "final_ht_j" -> "release_vcf_prepare_ht.py"
      [] OTHER -> "final_filter.py"

\* the options in the command line of the job (variant_qc.py:126-137,
\* 255-260, 330-342, 420-433)
JobFlags(j, c) ==
    CASE j = "rf_anno_job" ->
            {"--overwrite", "--info-split-ht", "--freq-ht",
             "--allele-data-ht", "--qc-ac-ht", "--bucket",
             "--use-adj-genotypes", "--out-ht", "--n-partitions"}
                \cup (IF c.ped_file THEN {"--fam-stats-ht"} ELSE {})
      [] j = "final_ht_j" -> {"--mt", "--out-ht", "--out-vcf-header-txt"}
      [] j = "rf_final_filter_job" ->
            {"--overwrite", "--out-final-filter-ht", "--model-id",
             "--model-name", "--score-name", "--info-split-ht", "--freq-ht",
             "--score-bin-ht", "--score-bin-agg-ht", "--bucket"}
      [] j = "vqsr_final_filter_job" ->
            {"--overwrite", "--out-final-filter-ht",
             "--vqsr-filters-split-ht", "--model-id", "--model-name",
             "--score-name", "--info-split-ht", "--freq-ht",
             "--score-bin-ht", "--score-bin-agg-ht", "--bucket"}
      [] OTHER -> {}

\* the click options of the script (create_rf_annotations.py:66-147,
\* release_vcf_prepare_ht.py:118-156, final_filter.py:246-304)
DeclaredOptions(script) ==
    CASE script = "create_rf_annotations.py" ->
            {"--info-split-ht", "--freq-ht", "--fam-stats-ht",
             "--allele-data-ht", "--qc-ac-ht", "--out-ht", "--bucket",
             "--local-tmp-dir", "--impute-features", "--n-partitions",
             "--use-adj-genotypes", "--overwrite", "--reuse"}
      [] script = "release_vcf_prepare_ht.py" ->
            {"--mt", "--out-ht", "--out-vcf-header-txt", "--public-subset",
             "--test", "--local-tmp-dir"}
      [] script = "final_filter.py" ->
            {"--info-ht", "--model-id", "--model-name", "--score-name",
             "--inbreeding-coeff-threshold", "--vqsr-model-id", "--bucket",
             "--local-tmp-dir", "--overwrite", "--reuse"}

\* the options declared with required=True
RequiredOptions(script) ==
    CASE script = "create_rf_annotations.py" ->
            {"--info-split-ht", "--freq-ht", "--allele-data-ht",
             "--qc-ac-ht", "--out-ht", "--bucket"}
      [] script = "release_vcf_prepare_ht.py" ->
            {"--mt", "--out-ht", "--out-vcf-header-txt", "--test"}
      [] script = "final_filter.py" -> {"--info-ht", "--bucket"}

\* C30: the command of every executed job whose script is in scripts/ has
\* only options the script declares, and has every option the script
\* requires
C30_CommandsMatchScripts ==
    Built =>
        \A j \in RepoScriptJobs :
            kind[j] = "executed" =>
                /\ JobFlags(j, cfg[1]) \subseteq DeclaredOptions(Script(j))
                /\ RequiredOptions(Script(j)) \subseteq JobFlags(j, cfg[1])

====
